---- MODULE Spec2Model ----
(***************************************************************************)
(* Model of src/theme.js: the initTheme script of the portfolio page.      *)
(*                                                                         *)
(* The script reads localStorage['theme-light'], adds the class 'light' to *)
(* the root element when the value is '1', and registers one click         *)
(* listener on the document that toggles the class and writes the new      *)
(* state back whenever the click target has the id 'themeToggle'.          *)
(*                                                                         *)
(* Four specifications:                                                    *)
(*   Spec        the page lifecycle: a page load runs the script once on a *)
(*               fresh document; clicks, element insertion and reloads     *)
(*               follow.                                                   *)
(*   SpecReinit  the script body applied to an arbitrary root element and  *)
(*               an arbitrary store, possibly several times in the same    *)
(*               document (the script included more than once).            *)
(*   SpecFail    the page lifecycle with a host storage that may throw on  *)
(*               writes (quota) or on reads and writes (access denied).    *)
(*   SpecSteps   one loaded page, click events queued by the host and the  *)
(*               listener run line by line.                                *)
(***************************************************************************)
EXTENDS Integers, FiniteSets, Sequences, TLC

(* ------------------------------ bounds --------------------------------- *)

\* element objects that may exist in one document
MaxNodes == 2

\* clicks on a 'themeToggle' element counted per document
MaxClicks == 3

\* executions of the script in one document (SpecReinit)
MaxInits == 2

\* click events the host delivers to one document (SpecSteps)
MaxEvents == 3

(* ------------------------- program constants --------------------------- *)

key == "theme-light"

LightClass == "light"

ToggleId == "themeToggle"

\* e.target of an event that has no target (null)
NullTarget == -1

\* the document node, on which the listener is registered
DocumentNode == 0

(* --------------------------- the environment --------------------------- *)

\* element objects of the document
Nodes == 1 .. MaxNodes

\* id attributes an element of the page may carry ("" : no id attribute)
ElementIds == {ToggleId, "menuToggle", ""}

\* classes the page's markup or other scripts may put on the root element
OtherClasses == {"no-scroll"}

RootClasses == OtherClasses \cup {LightClass}

\* values a store may hold under the key before the script first runs
StoredValues == {"0", "1", "", "true"}

\* a store: the key is absent, or present with a string value
Storages == UNION {[S -> StoredValues] : S \in SUBSET {key}}

(* ------------------------ host API (DOM, Storage) ---------------------- *)

\* Storage.getItem: <<>> stands for null, <<v>> for the string v
getItem(ls, k) == IF k \in DOMAIN ls THEN <<ls[k]>> ELSE <<>>

\* Storage.setItem
setItem(ls, k, v) == [x \in (DOMAIN ls) \cup {k} |-> IF x = k THEN v ELSE ls[x]]

\* what the host's storage may be: working, out of quota, or denied to the page
StorageStates == {"ok", "full", "denied"}

\* line 4: localStorage.getItem throws when storage is denied to the page
ReadThrows(s) == s = "denied"

\* line 8: localStorage.setItem throws when storage is denied or out of quota
WriteThrows(s) == s \in {"full", "denied"}

\* DOMTokenList.contains
contains(cl, c) == c \in cl

\* e.target.id of a non-null target: <<>> stands for undefined (the document)
TargetId(ids, t) == IF t \in Nodes THEN <<ids[t]>> ELSE <<>>

(* ------------------------------ the script ----------------------------- *)

StoredIsLight_Truthy(item) == item # <<>> /\ item # <<"">>

\* line 4: localStorage.getItem(key) === '1'
StoredIsLight(item) == item = <<"1">>

InitRootClasses_Toggle(cl, item) ==
    IF StoredIsLight(item)
    THEN (IF LightClass \in cl THEN cl \ {LightClass} ELSE cl \cup {LightClass})
    ELSE cl

InitRootClasses_Reset(cl, item) ==
    IF StoredIsLight(item) THEN cl \cup {LightClass} ELSE cl \ {LightClass}

\* line 4: if (...) root.classList.add('light')
InitRootClasses(cl, item) ==
    IF StoredIsLight(item) THEN cl \cup {LightClass} ELSE cl

RegistrationNodes_Direct(ids, att) == {n \in att : ids[n] = ToggleId}

\* line 5: document.addEventListener('click', ...): the nodes that get the listener
RegistrationNodes(ids, att) == {DocumentNode}

TargetTest_NoNullCheck(ids, t) ==
    IF t = NullTarget THEN "TypeError"
    ELSE IF TargetId(ids, t) = <<ToggleId>> THEN "true" ELSE "false"

TargetTest_AnyTarget(ids, t) ==
    IF t = NullTarget THEN "false" ELSE "true"

\* line 6: e.target && e.target.id === 'themeToggle'
TargetTest(ids, t) ==
    IF t = NullTarget THEN "false"
    ELSE IF TargetId(ids, t) = <<ToggleId>> THEN "true" ELSE "false"

ToggleRoot_AddOnly(cl) == cl \cup {LightClass}

\* line 7: root.classList.toggle('light')
ToggleRoot(cl) ==
    IF LightClass \in cl THEN cl \ {LightClass} ELSE cl \cup {LightClass}

PersistedValue_Swapped(cl) == IF contains(cl, LightClass) THEN "0" ELSE "1"

PersistedValue_Words(cl) == IF contains(cl, LightClass) THEN "true" ELSE "false"

\* line 8: root.classList.contains('light') ? '1' : '0'
PersistedValue(cl) == IF contains(cl, LightClass) THEN "1" ELSE "0"

Listener_WriteBeforeToggle(st, ids, t) ==
    LET test == TargetTest(ids, t) IN
    IF test = "true"
    THEN IF WriteThrows(st.storage)
         THEN [st EXCEPT !.err = "StorageError"]
         ELSE [st EXCEPT !.cl = ToggleRoot(st.cl),
                         !.ls = setItem(st.ls, key, PersistedValue(st.cl))]
    ELSE IF test = "TypeError" THEN [st EXCEPT !.err = "TypeError"]
    ELSE st

Listener_RollbackOnThrow(st, ids, t) ==
    LET test == TargetTest(ids, t) IN
    IF test = "true"
    THEN LET cl2 == ToggleRoot(st.cl) IN
         IF WriteThrows(st.storage)
         THEN [st EXCEPT !.err = "StorageError"]
         ELSE [st EXCEPT !.cl = cl2,
                         !.ls = setItem(st.ls, key, PersistedValue(cl2))]
    ELSE IF test = "TypeError" THEN [st EXCEPT !.err = "TypeError"]
    ELSE st

\* lines 5-10: one invocation of the click listener on the event with target t;
\* st is the root class list, the store, the state of the host's storage and the
\* error raised so far. A write that throws ends the invocation after line 7.
Listener(st, ids, t) ==
    LET test == TargetTest(ids, t) IN
    IF test = "true"
    THEN LET cl2 == ToggleRoot(st.cl) IN
         IF WriteThrows(st.storage)
         THEN [st EXCEPT !.cl = cl2, !.err = "StorageError"]
         ELSE [st EXCEPT !.cl = cl2,
                         !.ls = setItem(st.ls, key, PersistedValue(cl2))]
    ELSE IF test = "TypeError" THEN [st EXCEPT !.err = "TypeError"]
    ELSE st

\* k listeners invoked one after the other on the same event
RECURSIVE RunListeners(_, _, _, _)
RunListeners(st, ids, t, k) ==
    IF k = 0 THEN st ELSE RunListeners(Listener(st, ids, t), ids, t, k - 1)

\* how many registered listeners an event with target t invokes: the event
\* passes its target, when that is an element, and then the document
Invoked(reg, t) ==
    reg[DocumentNode] + (IF t \in Nodes THEN reg[t] ELSE 0)

(* -------------------------------- state -------------------------------- *)

VARIABLES
    localStorage,   \* the origin's store
    rootClassList,  \* class list of document.documentElement
    idOf,           \* id attribute of each element object
    attached,       \* the element objects that are in the document
    listeners,      \* node -> number of click listeners registered on it
    lateNodes,      \* elements inserted after the script last ran
    lastOp,         \* the operation that produced this state
    lastTarget,     \* the target of the last click
    preStorage,     \* the store before the last operation
    preClassList,   \* the root class list before the last operation
    lastError,      \* the error the last operation raised
    clicks,         \* clicks on a 'themeToggle' element since the script last ran
    lightAtInit,    \* whether 'light' was present when the script last finished
    everToggled,    \* a click on a 'themeToggle' element has been handled
    initsInRow,     \* executions of the script with no other operation between
    storageState,   \* whether the host's storage works (see StorageStates)
    initError,      \* the error the script's last run raised
    queue,          \* click events delivered by the host and not yet handled
    enqueued,       \* number of click events delivered so far
    stack,          \* listener invocations begun and not finished, newest first
    handled,        \* delivery numbers of the events handled, in handling order
    begunDirty      \* an invocation began while another had toggled, not written

\* the event loop, which the whole-handler actions leave alone
loopVars == <<queue, enqueued, stack, handled, begunDirty>>

vars == <<localStorage, rootClassList, idOf, attached, listeners, lateNodes,
          lastOp, lastTarget, preStorage, preClassList, lastError, clicks,
          lightAtInit, everToggled, initsInRow, storageState, initError,
          loopVars>>

\* no event delivered, no listener running
LoopIdle ==
    /\ queue = <<>>
    /\ enqueued = 0
    /\ stack = <<>>
    /\ handled = <<>>
    /\ begunDirty = FALSE

AllNodes == Nodes \cup {DocumentNode}

NoListeners == [n \in AllNodes |-> 0]

ScriptListeners_RegisterFirst(reg, nodes, threw) ==
    [n \in AllNodes |-> reg[n] + (IF n \in nodes THEN 1 ELSE 0)]

\* lines 4-5: the listeners after a run of the script: the registration of
\* line 5 is reached only when the read of line 4 did not throw
ScriptListeners(reg, nodes, threw) ==
    IF threw THEN reg
    ELSE [n \in AllNodes |-> reg[n] + (IF n \in nodes THEN 1 ELSE 0)]

\* lines 1-11: the script body, run on root class list cl in a document whose
\* nodes carry the listeners reg
initTheme(cl, reg) ==
    /\ rootClassList' = IF ReadThrows(storageState) THEN cl
                        ELSE InitRootClasses(cl, getItem(localStorage, key))
    /\ listeners' = ScriptListeners(reg, RegistrationNodes(idOf', attached'),
                                    ReadThrows(storageState))
    /\ lightAtInit' = contains(rootClassList', LightClass)
    /\ preStorage' = localStorage
    /\ preClassList' = cl
    /\ lastError' = IF ReadThrows(storageState) THEN "StorageError" ELSE "none"
    /\ initError' = lastError'
    /\ lastTarget' = NullTarget
    /\ clicks' = 0
    /\ lateNodes' = {}
    /\ UNCHANGED <<localStorage, everToggled, storageState, loopVars>>

\* a page load: a fresh document whose root has no 'light' class, the script
\* run once on it
PageLoad(cl, ids, att) ==
    /\ idOf' = ids
    /\ attached' = att
    /\ initTheme(cl, NoListeners)
    /\ initsInRow' = 1

(* ------------------------------- actions ------------------------------- *)

\* the user reloads the page: same store, and a fresh document built from the
\* same markup (the root's classes other than 'light', the elements that were
\* not inserted by a script)
Reload ==
    /\ PageLoad(rootClassList \ {LightClass}, idOf, attached \ lateNodes)
    /\ lastOp' = "load"

\* the script runs again in the same document
Reinit ==
    /\ listeners[DocumentNode] < MaxInits
    /\ UNCHANGED <<idOf, attached>>
    /\ initTheme(rootClassList, listeners)
    /\ initsInRow' = initsInRow + 1
    /\ lastOp' = "init"

\* a click event with target t is dispatched: every listener on its path runs
Click(t) ==
    /\ t \in {NullTarget, DocumentNode} \cup attached
    /\ (TargetId(idOf, t) = <<ToggleId>>) => clicks < MaxClicks
    /\ LET st == RunListeners([cl |-> rootClassList, ls |-> localStorage,
                               storage |-> storageState, err |-> "none"],
                              idOf, t, Invoked(listeners, t))
       IN  /\ rootClassList' = st.cl
           /\ localStorage' = st.ls
           /\ lastError' = st.err
    /\ clicks' = IF TargetId(idOf, t) = <<ToggleId>> THEN clicks + 1 ELSE clicks
    /\ everToggled' = (everToggled \/ (/\ TargetId(idOf, t) = <<ToggleId>>
                                         /\ Invoked(listeners, t) >= 1))
    /\ preStorage' = localStorage
    /\ preClassList' = rootClassList
    /\ lastOp' = "click"
    /\ lastTarget' = t
    /\ initsInRow' = 0
    /\ UNCHANGED <<idOf, attached, listeners, lateNodes, lightAtInit,
                   storageState, initError, loopVars>>

\* another script inserts element n into the document
AddElement(n) ==
    /\ n \in Nodes \ attached
    /\ attached' = attached \cup {n}
    /\ lateNodes' = lateNodes \cup {n}
    /\ preStorage' = localStorage
    /\ preClassList' = rootClassList
    /\ lastOp' = "add"
    /\ lastError' = "none"
    /\ initsInRow' = 0
    /\ UNCHANGED <<localStorage, rootClassList, idOf, listeners, lastTarget,
                   clicks, lightAtInit, everToggled, storageState, initError,
                   loopVars>>

\* the host's storage changes state: the quota runs out or is freed, the user
\* denies or grants the page its storage
SetStorage(s) ==
    /\ s \in StorageStates \ {storageState}
    /\ storageState' = s
    /\ preStorage' = localStorage
    /\ preClassList' = rootClassList
    /\ lastOp' = "host"
    /\ lastError' = "none"
    /\ initsInRow' = 0
    /\ UNCHANGED <<localStorage, rootClassList, idOf, attached, listeners,
                   lateNodes, lastTarget, clicks, lightAtInit, everToggled,
                   initError, loopVars>>

(* ----------------------- the listener, step by step ------------------- *)

\* what the step actions leave alone
pageVars == <<idOf, attached, listeners, lateNodes, lastOp, lastTarget,
              preStorage, preClassList, lastError, clicks, lightAtInit,
              everToggled, initsInRow, storageState, initError>>

\* the host delivers a click event with target t: it waits in the queue
Enqueue(t) ==
    /\ t \in {NullTarget, DocumentNode} \cup attached
    /\ enqueued < MaxEvents
    /\ enqueued' = enqueued + 1
    /\ queue' = Append(queue, [n |-> enqueued + 1, target |-> t])
    /\ UNCHANGED <<localStorage, rootClassList, stack, handled, begunDirty,
                   pageVars>>

CanBegin_AwaitBeforeWrite(stk) ==
    IF stk = <<>> THEN TRUE ELSE (Len(stk) < 2 /\ Head(stk).pc = "write")

\* lines 5-10: the listener is a synchronous function without await, so the
\* host begins an invocation only when no invocation is unfinished
CanBegin(stk) == stk = <<>>

\* lines 5-6: the oldest waiting event is handled: the listener is called and
\* tests the target; it goes on to line 7 or returns
Begin ==
    /\ queue # <<>>
    /\ CanBegin(stack)
    /\ queue' = Tail(queue)
    /\ handled' = Append(handled, Head(queue).n)
    /\ begunDirty' = (begunDirty \/ \E i \in 1 .. Len(stack) : stack[i].pc = "write")
    /\ stack' = IF /\ Invoked(listeners, Head(queue).target) >= 1
                   /\ TargetTest(idOf, Head(queue).target) = "true"
                THEN <<[pc |-> "toggle"]>> \o stack
                ELSE stack
    /\ UNCHANGED <<localStorage, rootClassList, enqueued, pageVars>>

\* line 7 of the running invocation
HandlerToggle ==
    /\ stack # <<>>
    /\ Head(stack).pc = "toggle"
    /\ rootClassList' = ToggleRoot(rootClassList)
    /\ stack' = <<[pc |-> "write"]>> \o Tail(stack)
    /\ UNCHANGED <<localStorage, queue, enqueued, handled, begunDirty, pageVars>>

\* line 8 of the running invocation, which then returns
HandlerWrite ==
    /\ stack # <<>>
    /\ Head(stack).pc = "write"
    /\ localStorage' = IF WriteThrows(storageState) THEN localStorage
                       ELSE setItem(localStorage, key, PersistedValue(rootClassList))
    /\ stack' = Tail(stack)
    /\ UNCHANGED <<rootClassList, queue, enqueued, handled, begunDirty, pageVars>>

(* ---------------------------- specifications --------------------------- *)

\* the state after the first page load, for any store left by earlier visits
Init ==
    \E ls \in Storages, cl \in SUBSET OtherClasses,
       ids \in [Nodes -> ElementIds], att \in SUBSET Nodes :
        /\ localStorage = ls
        /\ idOf = ids
        /\ attached = att
        /\ rootClassList = InitRootClasses(cl, getItem(ls, key))
        /\ listeners = [n \in AllNodes |->
                           IF n \in RegistrationNodes(ids, att) THEN 1 ELSE 0]
        /\ lightAtInit = contains(rootClassList, LightClass)
        /\ preStorage = ls
        /\ preClassList = cl
        /\ lastError = "none"
        /\ lastTarget = NullTarget
        /\ clicks = 0
        /\ lateNodes = {}
        /\ everToggled = FALSE
        /\ initsInRow = 1
        /\ lastOp = "load"
        /\ storageState = "ok"
        /\ initError = "none"
        /\ LoopIdle

Next ==
    \/ Reload
    \/ \E t \in {NullTarget} \cup AllNodes : Click(t)
    \/ \E n \in Nodes : AddElement(n)

Spec == Init /\ [][Next]_vars

\* a document in which the script has not run yet: any root class list, any store
InitReinit ==
    \E ls \in Storages, cl \in SUBSET RootClasses,
       ids \in [Nodes -> ElementIds], att \in SUBSET Nodes :
        /\ localStorage = ls
        /\ idOf = ids
        /\ attached = att
        /\ rootClassList = cl
        /\ listeners = NoListeners
        /\ lightAtInit = contains(cl, LightClass)
        /\ preStorage = ls
        /\ preClassList = cl
        /\ lastError = "none"
        /\ lastTarget = NullTarget
        /\ clicks = 0
        /\ lateNodes = {}
        /\ everToggled = FALSE
        /\ initsInRow = 0
        /\ lastOp = "none"
        /\ storageState = "ok"
        /\ initError = "none"
        /\ LoopIdle

NextReinit ==
    \/ Reinit
    \/ \E t \in {NullTarget} \cup AllNodes : Click(t)

SpecReinit == InitReinit /\ [][NextReinit]_vars

\* the state after the first page load, for any store left by earlier visits and
\* any state of the host's storage
InitFail ==
    \E ls \in Storages, cl \in SUBSET OtherClasses,
       ids \in [Nodes -> ElementIds], att \in SUBSET Nodes,
       s \in StorageStates :
        /\ localStorage = ls
        /\ idOf = ids
        /\ attached = att
        /\ storageState = s
        /\ rootClassList = IF ReadThrows(s) THEN cl
                           ELSE InitRootClasses(cl, getItem(ls, key))
        /\ listeners = ScriptListeners(NoListeners, RegistrationNodes(ids, att),
                                       ReadThrows(s))
        /\ lightAtInit = contains(rootClassList, LightClass)
        /\ preStorage = ls
        /\ preClassList = cl
        /\ lastError = IF ReadThrows(s) THEN "StorageError" ELSE "none"
        /\ initError = lastError
        /\ lastTarget = NullTarget
        /\ clicks = 0
        /\ lateNodes = {}
        /\ everToggled = FALSE
        /\ initsInRow = 1
        /\ lastOp = "load"
        /\ LoopIdle

NextFail ==
    \/ Reload
    \/ \E t \in {NullTarget} \cup AllNodes : Click(t)
    \/ \E s \in StorageStates : SetStorage(s)

SpecFail == InitFail /\ [][NextFail]_vars

\* the page after its load, clicks delivered at any time and handled step by step
NextSteps ==
    \/ \E t \in {NullTarget} \cup AllNodes : Enqueue(t)
    \/ Begin
    \/ HandlerToggle
    \/ HandlerWrite

SpecSteps == Init /\ [][NextSteps]_vars

(* ------------------------------ properties ----------------------------- *)

Light(cl) == LightClass \in cl

\* the last operation was a click whose target has the id 'themeToggle'
ToggleClicked ==
    /\ lastOp = "click"
    /\ lastTarget # NullTarget
    /\ TargetId(idOf, lastTarget) = <<ToggleId>>

\* the last operation was a click with no target or with another target id
OtherClicked ==
    /\ lastOp = "click"
    /\ (lastTarget = NullTarget \/ TargetId(idOf, lastTarget) # <<ToggleId>>)

\* C1: once the script has run, after every click on a 'themeToggle' target,
\* whatever the class and the stored value were before it, the stored value
\* is "1" if the root has the class 'light' and "0" if it has not.
C1_PersistenceSync ==
    (ToggleClicked /\ listeners[DocumentNode] >= 1) =>
        /\ (getItem(localStorage, key) = <<"1">>) <=> Light(rootClassList)
        /\ ~Light(rootClassList) => getItem(localStorage, key) = <<"0">>

\* a click that found the class and the store in disagreement and left them agreeing
C1_Witness ==
    /\ ToggleClicked
    /\ listeners[DocumentNode] = 1
    /\ Light(preClassList)
    /\ getItem(preStorage, key) = <<"0">>
    /\ ~Light(rootClassList)
    /\ getItem(localStorage, key) = <<"0">>

\* C2: when the class was absent after initialization, after N clicks on a
\* 'themeToggle' target the class is present iff N is odd, and each such click
\* flips the class.
C2_ToggleAlternation ==
    /\ ~lightAtInit => (Light(rootClassList) <=> (clicks % 2 = 1))
    /\ ToggleClicked => (Light(rootClassList) # Light(preClassList))

\* three clicks from class-absent: the class is present
C2_Witness ==
    /\ ~lightAtInit
    /\ clicks = 3
    /\ ToggleClicked
    /\ Light(rootClassList)

\* C3: after a page load the root has the class when the stored value is "1"
\* and has it not when the stored value is "0" or absent.
C3_InitRestore ==
    lastOp = "load" =>
        /\ getItem(localStorage, key) = <<"1">> => Light(rootClassList)
        /\ getItem(localStorage, key) \in {<<"0">>, <<>>} => ~Light(rootClassList)

\* a load that found "0", written by an earlier click, and left the class absent
C3_Witness ==
    /\ lastOp = "load"
    /\ everToggled
    /\ getItem(localStorage, key) = <<"0">>
    /\ ~Light(rootClassList)

\* C4: a click with no target, or with a target whose id is not 'themeToggle',
\* changes neither the root class list nor the store and raises no error.
C4_TargetIsolation ==
    OtherClicked =>
        /\ rootClassList = preClassList
        /\ localStorage = preStorage
        /\ lastError = "none"

\* a click without target on a page whose theme has been toggled to light
C4_Witness ==
    /\ OtherClicked
    /\ lastTarget = NullTarget
    /\ everToggled
    /\ Light(rootClassList)

\* C5: a reload leaves the class present iff it was present just before it.
C5_ReloadRestores ==
    [][lastOp' = "load" => (Light(rootClassList') <=> Light(rootClassList))]_vars

\* a reload after clicks that comes up with the class present
C5_Witness ==
    /\ lastOp = "load"
    /\ everToggled
    /\ Light(rootClassList)
    /\ getItem(localStorage, key) = <<"1">>

\* C6: only a click on a 'themeToggle' target changes the store; a page load
\* never writes it, and a key once present is never absent afterwards.
C6_SingleWriter ==
    /\ localStorage # preStorage => ToggleClicked
    /\ lastOp = "load" => localStorage = preStorage
    /\ key \in DOMAIN preStorage => key \in DOMAIN localStorage

\* the first write: a click that created the key
C6_Witness ==
    /\ ToggleClicked
    /\ key \notin DOMAIN preStorage
    /\ key \in DOMAIN localStorage

\* C7: a second run of the script right after a first leaves the presence of
\* the class as the first run left it.
C7_InitIdempotent ==
    (lastOp = "init" /\ initsInRow >= 2) =>
        (Light(rootClassList) <=> Light(preClassList))

\* two runs in a row with "1" stored: the class is still present
C7_Witness ==
    /\ lastOp = "init"
    /\ initsInRow = 2
    /\ getItem(localStorage, key) = <<"1">>
    /\ Light(rootClassList)

\* C8: a run of the script that finds no value, or a value other than "1",
\* leaves the root class list as it was.
C8_InitFrame ==
    (lastOp = "init" /\ getItem(preStorage, key) # <<"1">>) =>
        rootClassList = preClassList

\* a run that found "true" on a root that had the class, and kept it
C8_Witness ==
    /\ lastOp = "init"
    /\ getItem(preStorage, key) = <<"true">>
    /\ Light(preClassList)
    /\ rootClassList = RootClasses

\* C9: every value written is "1" or "0", and from the first handled click
\* on a 'themeToggle' target on the stored value is one of the two.
C9_WrittenValues ==
    /\ localStorage # preStorage => getItem(localStorage, key) \in {<<"0">>, <<"1">>}
    /\ everToggled => getItem(localStorage, key) \in {<<"0">>, <<"1">>}

\* a click that replaced a foreign value by "1"
C9_Witness ==
    /\ ToggleClicked
    /\ getItem(preStorage, key) = <<"true">>
    /\ getItem(localStorage, key) = <<"1">>

\* C10: the one listener is on the document and on no element, and a click on
\* a 'themeToggle' element inserted after the script ran flips the class and
\* stores the new state.
C10_Delegation ==
    /\ listeners[DocumentNode] = 1
    /\ \A n \in Nodes : listeners[n] = 0
    /\ (ToggleClicked /\ lastTarget \in lateNodes) =>
        /\ Light(rootClassList) # Light(preClassList)
        /\ rootClassList \ {LightClass} = preClassList \ {LightClass}
        /\ getItem(localStorage, key) =
              <<IF Light(rootClassList) THEN "1" ELSE "0">>

\* a click on a late 'themeToggle' element that turned the class on
C10_Witness ==
    /\ ToggleClicked
    /\ lastTarget \in lateNodes
    /\ ~Light(preClassList)
    /\ Light(rootClassList)
    /\ getItem(localStorage, key) = <<"1">>

\* C13: when the write throws in the handler of a click on a 'themeToggle'
\* target, the class stays toggled and the store keeps its value; the listener
\* stays registered, and every later click on such a target still flips the
\* class, and stores the new state when its write succeeds.
C13_WriteFailure ==
    (ToggleClicked /\ initError = "none") =>
        /\ listeners[DocumentNode] = 1
        /\ Light(rootClassList) # Light(preClassList)
        /\ lastError = "StorageError" => localStorage = preStorage
        /\ lastError = "none" =>
              getItem(localStorage, key) =
                  <<IF Light(rootClassList) THEN "1" ELSE "0">>

\* a failed write that left the class on and "0" in the store
C13_Witness ==
    /\ ToggleClicked
    /\ lastError = "StorageError"
    /\ Light(rootClassList)
    /\ ~Light(preClassList)
    /\ getItem(localStorage, key) = <<"0">>

\* C14: when the read throws during the script, no listener is registered, the
\* root is left as it was, and no click afterwards changes the class or the store.
C14_ReadFailure ==
    initError = "StorageError" =>
        /\ listeners = NoListeners
        /\ lastOp = "load" => rootClassList = preClassList
        /\ lastOp = "click" =>
              (rootClassList = preClassList /\ localStorage = preStorage)

\* a click on a 'themeToggle' element, with storage working again, on a page
\* whose script failed: "1" is stored and the class is not there
C14_Witness ==
    /\ initError = "StorageError"
    /\ ToggleClicked
    /\ storageState = "ok"
    /\ getItem(localStorage, key) = <<"1">>
    /\ ~Light(rootClassList)

C12_ClassMatchesStore ==
    stack = <<>> =>
        (Light(rootClassList) <=> getItem(localStorage, key) = <<"1">>)

\* all delivered events handled, on a page loaded with "true" in the store:
\* the class is on and "1" is stored
C12_Witness ==
    /\ stack = <<>>
    /\ queue = <<>>
    /\ Len(handled) = MaxEvents
    /\ Light(rootClassList)
    /\ getItem(localStorage, key) = <<"1">>
    /\ getItem(preStorage, key) = <<"true">>

====
